---------------------------- MODULE Spec2Model ----------------------------
(***************************************************************************)
(* Model of ScriptTools/project-storage-monitor/project_storage_monitor.py *)
(* (ArtifactoryStorageMonitor and main).                                   *)
(*                                                                         *)
(* Representation.                                                         *)
(*  - A Python str is the sequence of its Unicode code points.             *)
(*  - None is the one-element sequence <<-1>>, which is no str.            *)
(*  - A Python dict is a record; a key the dict lacks is a field the       *)
(*    record lacks (dict.get is the operator Get).                         *)
(*  - A byte count handed to format_size is an unbounded Python int; it is *)
(*    held as its little-endian base-1024 digits, so that values beyond    *)
(*    the PB range are representable.  The float that format_size makes of *)
(*    it is its nearest double (ToFloat); dividing a double by 1024.0 is   *)
(*    exact, so the value after k divisions is the digits shifted by k.    *)
(*  - A percentage (used / quota * 100) is the exact quotient; the inputs  *)
(*    explored (used bytes multiples of 10, a quota of 1000) make it a     *)
(*    number with at most one decimal, on which the double arithmetic of   *)
(*    the program agrees with the exact quotient.                          *)
(*  - print(...) appends one record to output; its "kind" names the label  *)
(*    the line starts with.                                                *)
(***************************************************************************)
EXTENDS Integers, Sequences, FiniteSets, TLC

VARIABLES
    pc,             \* position of main: "start", "single", "all", "done", "exit1" (sys.exit(1)),
                    \* "KeyError" (uncaught, line 224); "idle" when main does not run
    projects,       \* main: the list get_projects() returned
    storage_info,   \* main: storage_info['repositoriesSummaryList']
    project_name,   \* main: args.project_name (None when not given)
    details,        \* main: args.details
    idx,            \* main: position of the for loop of line 320 (projects already reported)
    output,         \* the lines printed from line 302 on
    divisors,       \* the values of storage_quota main's run divided by (lines 166, 218)
    fn,             \* the method under direct call ("none" while main runs)
    arg,            \* its arguments
    ret             \* its return value (NoResult before it returned)

vars == <<pc, projects, storage_info, project_name, details, idx, output, divisors, fn, arg, ret>>

mainVars == <<pc, projects, storage_info, project_name, details, idx, output, divisors>>

callVars == <<fn, arg, ret>>

-----------------------------------------------------------------------------
(* Bounds of the explored inputs *)

MaxDigits == 7

MaxLen == 3

MaxWidth == 6

MaxProjects == 2

MaxRecords == 2

MaxRepos == 3

-----------------------------------------------------------------------------
(* Python values *)

None == <<-1>>

NoResult == [returned |-> FALSE]

Get(d, key, default) == IF key \in DOMAIN d THEN d[key] ELSE default

Max(a, b) == IF a >= b THEN a ELSE b

RECURSIVE Pow(_, _)
Pow(b, e) == IF e = 0 THEN 1 ELSE b * Pow(b, e - 1)

RECURSIVE Repeat(_, _)
Repeat(c, n) == IF n <= 0 THEN <<>> ELSE <<c>> \o Repeat(c, n - 1)

RECURSIVE NatToStr(_)
NatToStr(n) ==
    IF n < 10 THEN <<48 + n>> ELSE NatToStr(n \div 10) \o <<48 + (n % 10)>>

-----------------------------------------------------------------------------
(* format_size, lines 107-116 *)

Radix == 1024

RadixBits == 10

MantissaBits == 53

RECURSIVE ToDigits(_)
ToDigits(n) ==
    IF n < Radix THEN <<n>> ELSE <<n % Radix>> \o ToDigits(n \div Radix)

IsZero(d) == \A i \in DOMAIN d : d[i] = 0

\* index of the most significant non-zero digit (0 for the value 0)
TopDigit(d) ==
    IF IsZero(d) THEN 0
    ELSE CHOOSE i \in DOMAIN d : d[i] # 0 /\ \A j \in DOMAIN d : j > i => d[j] = 0

RECURSIVE BitLen(_)
BitLen(x) == IF x = 0 THEN 0 ELSE 1 + BitLen(x \div 2)

\* d + amount * Radix^(pos-1), amount < Radix
RECURSIVE AddAt(_, _, _)
AddAt(d, pos, amount) ==
    IF amount = 0 THEN d
    ELSE IF pos > Len(d) THEN AddAt(d \o <<0>>, pos, amount)
    ELSE LET s == d[pos] + amount
         IN  AddAt([d EXCEPT ![pos] = s % Radix], pos + 1, s \div Radix)

\* float(bytes_size): the nearest double, ties to even (what `bytes_size /= 1024.0`
\* makes of an int of more than 53 significant bits)
ToFloat(d) ==
    LET top   == TopDigit(d)
        nbits == IF top = 0 THEN 0 ELSE RadixBits * (top - 1) + BitLen(d[top])
    IN  IF nbits <= MantissaBits THEN d
        ELSE LET s       == nbits - MantissaBits
                 L       == d[1] + Radix * d[2] + Radix * Radix * d[3]
                 unit    == Pow(2, s)
                 low     == L % unit
                 qodd    == (L \div unit) % 2 = 1
                 up      == low * 2 > unit \/ (low * 2 = unit /\ qodd)
                 kept    == L - low
                 cleared == [i \in DOMAIN d |->
                                IF i = 1 THEN kept % Radix
                                ELSE IF i = 2 THEN (kept \div Radix) % Radix
                                ELSE IF i = 3 THEN kept \div (Radix * Radix)
                                ELSE d[i]]
             IN  IF up THEN AddAt(cleared, (s \div RadixBits) + 1, Pow(2, s % RadixBits))
                 ELSE cleared

\* the integer part of digits / Radix^k
RECURSIVE IntPart(_, _)
IntPart(d, k) ==
    IF Len(d) <= k THEN 0 ELSE d[k + 1] + Radix * IntPart(Tail(d), k)

\* <<carry, digits>> of (the k low digits of d) * 100 + carry: the final carry is
\* floor(frac * 100)
RECURSIVE MulLow(_, _, _, _)
MulLow(d, k, i, carry) ==
    IF i > k THEN <<carry, <<>>>>
    ELSE LET x   == (IF i <= Len(d) THEN d[i] ELSE 0) * 100 + carry
             hi  == MulLow(d, k, i + 1, x \div Radix)
         IN  <<hi[1], <<x % Radix>> \o hi[2]>>

\* f"{value:.2f}" of the double digits / Radix^k: the exact value rounded to two
\* decimals, ties to even
Fixed2(d, k) ==
    LET m     == MulLow(d, k, 1, 0)
        c     == m[1]
        r     == m[2]
        half  == Radix \div 2
        lowNZ == \E i \in 1..(k - 1) : r[i] # 0
        up    == IF k = 0 THEN FALSE
                 ELSE r[k] > half \/ (r[k] = half /\ (lowNZ \/ c % 2 = 1))
        h     == c + (IF up THEN 1 ELSE 0)
        int   == IntPart(d, k) + (IF h = 100 THEN 1 ELSE 0)
        hh    == h % 100
    IN  NatToStr(int) \o <<46, 48 + (hh \div 10), 48 + (hh % 10)>>

Units == << <<66>>, <<75, 66>>, <<77, 66>>, <<71, 66>>, <<84, 66>> >>

UnitPB == <<80, 66>>

\* mutant of Below1024: value <= 1024.0
Below1024_le(d, k) ==
    \/ \A i \in DOMAIN d : i > k + 1 => d[i] = 0
    \/ /\ k + 2 \in DOMAIN d
       /\ d[k + 2] = 1
       /\ \A i \in DOMAIN d : i # k + 2 => d[i] = 0

\* value < 1024.0, value = digits / Radix^k
Below1024(d, k) == \A i \in DOMAIN d : i > k + 1 => d[i] = 0

\* the for loop of lines 112-116, entered at Units[i] with k = i - 1 divisions done
RECURSIVE format_size_loop(_, _)
format_size_loop(d, i) ==
    IF i > Len(Units) THEN Fixed2(d, i - 1) \o <<32>> \o UnitPB
    ELSE IF Below1024(d, i - 1) THEN Fixed2(d, i - 1) \o <<32>> \o Units[i]
    ELSE format_size_loop(IF i = 1 THEN ToFloat(d) ELSE d, i + 1)

format_size(bytes_size) ==
    IF IsZero(bytes_size) THEN <<48, 32, 66>>
    ELSE format_size_loop(bytes_size, 1)

-----------------------------------------------------------------------------
(* get_project_name_color, lines 118-125.  A percentage is <<num, den>>, den > 0 *)

RED == <<27, 91, 49, 59, 51, 49, 109>>

YELLOW == <<27, 91, 49, 59, 51, 51, 109>>

GREEN == <<27, 91, 49, 59, 51, 50, 109>>

RESET == <<27, 91, 48, 109>>

\* usage_percent > n
Above(usage_percent, n) == usage_percent[1] > n * usage_percent[2]

\* mutant of get_project_name_color: the thresholds taken inclusively
get_project_name_color_ge(usage_percent) ==
    IF usage_percent[1] >= 90 * usage_percent[2] THEN RED
    ELSE IF usage_percent[1] >= 80 * usage_percent[2] THEN YELLOW
    ELSE GREEN

get_project_name_color(usage_percent) ==
    IF Above(usage_percent, 90) THEN RED
    ELSE IF Above(usage_percent, 80) THEN YELLOW
    ELSE GREEN

-----------------------------------------------------------------------------
(* get_display_width and pad_string, lines 127-152 *)

CJKFirst == 19968

CJKLast == 40959

\* mutant of get_display_width: U+9FFF itself counted as narrow
RECURSIVE get_display_width_open(_)
get_display_width_open(text) ==
    IF text = <<>> THEN 0
    ELSE (IF CJKFirst <= Head(text) /\ Head(text) < CJKLast THEN 2 ELSE 1)
         + get_display_width_open(Tail(text))

RECURSIVE get_display_width(_)
get_display_width(text) ==
    IF text = <<>> THEN 0
    ELSE (IF CJKFirst <= Head(text) /\ Head(text) <= CJKLast THEN 2 ELSE 1)
         + get_display_width(Tail(text))

AlignLeft == <<60>>

AlignRight == <<62>>

AlignCenter == <<94>>

pad_string(text, width, align) ==
    LET current_width == get_display_width(text)
        padding       == width - current_width
        left_padding  == padding \div 2
        right_padding == padding - left_padding
    IN  IF current_width >= width THEN text
        ELSE IF align = AlignLeft THEN text \o Repeat(32, padding)
        ELSE IF align = AlignRight THEN Repeat(32, padding) \o text
        ELSE Repeat(32, left_padding) \o text \o Repeat(32, right_padding)

-----------------------------------------------------------------------------
(* calculate_project_usage, lines 90-105 *)

TOTAL == <<84, 79, 84, 65, 76>>

RECURSIVE SumUsed(_)
SumUsed(repos) ==
    IF repos = <<>> THEN 0
    ELSE Get(Head(repos), "usedSpaceInBytes", 0) + SumUsed(Tail(repos))

\* mutant of InProject: the TOTAL row is kept
InProject_keepTotal(repo, project_key) == Get(repo, "projectKey", None) = project_key

InProject(repo, project_key) ==
    /\ Get(repo, "projectKey", None) = project_key
    /\ Get(repo, "repoKey", None) # TOTAL

calculate_project_usage(project_key, info) ==
    LET Belongs(repo) == InProject(repo, project_key)
        project_repos == SelectSeq(info, Belongs)
    IN  [repositories     |-> project_repos,
         total_used_bytes |-> SumUsed(project_repos),
         repo_count       |-> Len(project_repos)]

-----------------------------------------------------------------------------
(* print_project_usage, lines 154-229 *)

Unlimited == <<26080, 38480, 21046>>

NA == <<78, 47, 65>>

FilledGlyph == 9608

EmptyGlyph == 9617

HeaderName == <<20179, 24211, 21517, 31216>>

HeaderType == <<31867, 22411>>

HeaderUsed == <<20351, 29992, 31354, 38388>>

HeaderShare == <<21344, 27604>>

NameWidth == 25

TypeWidth == 12

SizeWidth == 18

ShareWidth == 12

bar_length == 30

\* f"{p:.<decimals>f}" of the percentage p = <<num, den>>: rounded to `decimals`
\* decimals, ties to even
FormatPercent(p, decimals) ==
    LET scale  == Pow(10, decimals)
        scaled == p[1] * scale
        q      == scaled \div p[2]
        r      == scaled % p[2]
        up     == 2 * r > p[2] \/ (2 * r = p[2] /\ q % 2 = 1)
        n      == q + (IF up THEN 1 ELSE 0)
        frac   == NatToStr(scale + (n % scale))
    IN  NatToStr(n \div scale) \o <<46>> \o Tail(frac)

\* (x / storage_quota) * 100
PercentOf(x, storage_quota) == <<x * 100, storage_quota>>

\* int(bar_length * usage_percent / 100)
filled_length(usage_percent) ==
    (bar_length * usage_percent[1]) \div (100 * usage_percent[2])

usage_bar(usage_percent) ==
    Repeat(FilledGlyph, filled_length(usage_percent))
        \o Repeat(EmptyGlyph, bar_length - filled_length(usage_percent))

\* lines 165-170
usage_percent_of(total_used, storage_quota) ==
    IF storage_quota > 0 THEN PercentOf(total_used, storage_quota) ELSE <<0, 1>>

\* mutant of quota_display_of: a quota of 0 formatted as a size
quota_display_of_ge(storage_quota) ==
    IF storage_quota >= 0 THEN format_size(ToDigits(storage_quota)) ELSE Unlimited

quota_display_of(storage_quota) ==
    IF storage_quota > 0 THEN format_size(ToDigits(storage_quota)) ELSE Unlimited

\* lines 196-200: the warning line after the bar
warning_lines(usage_percent) ==
    IF Above(usage_percent, 90) THEN << [kind |-> "warning", level |-> "critical"] >>
    ELSE IF Above(usage_percent, 80) THEN << [kind |-> "warning", level |-> "attention"] >>
    ELSE << >>

\* lines 217-221
percent_display(repo_used, storage_quota) ==
    IF storage_quota > 0
    THEN FormatPercent(PercentOf(repo_used, storage_quota), 2) \o <<37>>
    ELSE NA

\* lines 215-229: the rows printed, whether repo['repoKey'] raised KeyError, and the
\* values the rows divided by (line 218)
RECURSIVE detail_rows(_, _)
detail_rows(repos, storage_quota) ==
    IF repos = <<>> THEN [lines |-> <<>>, raised |-> FALSE, divisors |-> {}]
    ELSE LET repo      == Head(repos)
             repo_used == Get(repo, "usedSpaceInBytes", 0)
             rest      == detail_rows(Tail(repos), storage_quota)
             here      == IF storage_quota > 0 THEN {storage_quota} ELSE {}
         IN  IF "repoKey" \notin DOMAIN repo
             THEN [lines |-> <<>>, raised |-> TRUE, divisors |-> here]
             ELSE [divisors |-> here \cup rest.divisors,
                   lines  |-> << [kind         |-> "row",
                                  repo_name    |-> pad_string(repo.repoKey, NameWidth, AlignLeft),
                                  repo_type    |-> pad_string(Get(repo, "repoType", NA), TypeWidth, AlignLeft),
                                  repo_size    |-> pad_string(format_size(ToDigits(repo_used)), SizeWidth, AlignLeft),
                                  repo_percent |-> pad_string(percent_display(repo_used, storage_quota),
                                                              ShareWidth, AlignLeft)] >>
                                \o rest.lines,
                   raised |-> rest.raised]

\* lines 204-229
show_table(show_details, usage_info) == show_details /\ usage_info.repositories # <<>>

detail_table(usage_info, storage_quota) ==
    LET rows == detail_rows(usage_info.repositories, storage_quota)
    IN  [lines  |-> << [kind |-> "details_title"],
                       [kind    |-> "table_header",
                        header1 |-> pad_string(HeaderName, NameWidth, AlignLeft),
                        header2 |-> pad_string(HeaderType, TypeWidth, AlignLeft),
                        header3 |-> pad_string(HeaderUsed, SizeWidth, AlignLeft),
                        header4 |-> pad_string(HeaderShare, ShareWidth, AlignLeft)],
                       [kind |-> "dash_line"] >> \o rows.lines,
         raised   |-> rows.raised,
         divisors |-> rows.divisors]

print_project_usage(project, info, show_details) ==
    LET project_key   == project.project_key
        storage_quota == project.storage_quota_bytes
        usage_info    == calculate_project_usage(project_key, info)
        total_used    == usage_info.total_used_bytes
        usage_percent == usage_percent_of(total_used, storage_quota)
        quota_display == quota_display_of(storage_quota)
        head  == << [kind |-> "separator"],
                    [kind         |-> "name",
                     color_code   |-> get_project_name_color(usage_percent),
                     display_name |-> project.display_name,
                     reset_code   |-> RESET,
                     project_key  |-> project_key],
                    [kind |-> "quota", text |-> quota_display],
                    [kind |-> "used", text |-> format_size(ToDigits(total_used))],
                    [kind |-> "repo_count", value |-> usage_info.repo_count] >>
        usage == IF storage_quota > 0
                 THEN << [kind |-> "percent", text |-> FormatPercent(usage_percent, 2) \o <<37>>],
                         [kind |-> "bar", bar |-> usage_bar(usage_percent),
                          text |-> FormatPercent(usage_percent, 1) \o <<37>>] >>
                      \o warning_lines(usage_percent)
                 ELSE << [kind |-> "percent", text |-> Unlimited] >>
        table == IF show_table(show_details, usage_info)
                 THEN detail_table(usage_info, storage_quota)
                 ELSE [lines |-> <<>>, raised |-> FALSE, divisors |-> {}]
    IN  [lines    |-> head \o usage \o table.lines,
         raised   |-> table.raised,
         divisors |-> (IF storage_quota > 0 THEN {storage_quota} ELSE {}) \cup table.divisors]

-----------------------------------------------------------------------------
(* main, lines 301-334 *)

\* `if args.project_name:` (line 302): None and the empty string are false
Truthy(name) == name # None /\ name # <<>>

\* mutant of Matches: the display name is not compared
Matches_keyOnly(project, name) == project.project_key = name

Matches(project, name) == project.project_key = name \/ project.display_name = name

\* lines 304-308: the index of target_project in the list, 0 for None
FindTarget(list, name) ==
    IF \E i \in DOMAIN list : Matches(list[i], name)
    THEN CHOOSE i \in DOMAIN list :
            Matches(list[i], name) /\ \A j \in 1..(i - 1) : ~Matches(list[j], name)
    ELSE 0

\* mutant of SumQuota: every quota summed, limited or not
RECURSIVE SumQuota_all(_)
SumQuota_all(list) ==
    IF list = <<>> THEN 0
    ELSE Head(list).storage_quota_bytes + SumQuota_all(Tail(list))

RECURSIVE SumQuota(_)
SumQuota(list) ==
    IF list = <<>> THEN 0
    ELSE (IF Head(list).storage_quota_bytes > 0 THEN Head(list).storage_quota_bytes ELSE 0)
         + SumQuota(Tail(list))

IsUnlimited(project) == project.storage_quota_bytes <= 0

IsLimited(project) == project.storage_quota_bytes > 0

\* lines 324-334
summary_lines(list) ==
    LET total_quota        == SumQuota(list)
        unlimited_projects == SelectSeq(list, IsUnlimited)
        limited_projects   == SelectSeq(list, IsLimited)
    IN  << [kind |-> "separator"],
           [kind |-> "summary_title"],
           [kind |-> "total_projects", value |-> Len(list)],
           [kind |-> "limited_projects", value |-> Len(limited_projects)],
           [kind |-> "unlimited_projects", value |-> Len(unlimited_projects)] >>
        \o (IF total_quota > 0
            THEN << [kind |-> "total_quota", text |-> format_size(ToDigits(total_quota))] >>
            ELSE << >>)

ProjectKeys(list) == [i \in DOMAIN list |-> list[i].project_key]

\* line 302, a project name given: the search of lines 304-308
FindProject ==
    /\ pc = "start"
    /\ Truthy(project_name)
    /\ idx' = FindTarget(projects, project_name)
    /\ pc' = "single"
    /\ UNCHANGED <<projects, storage_info, project_name, details, output, divisors, callVars>>

\* lines 310-311
ReportTarget ==
    /\ pc = "single"
    /\ idx # 0
    /\ LET r == print_project_usage(projects[idx], storage_info, TRUE)
       IN  /\ output' = output \o r.lines
           /\ divisors' = divisors \cup r.divisors
           /\ pc' = IF r.raised THEN "KeyError" ELSE "done"
    /\ UNCHANGED <<projects, storage_info, project_name, details, idx, callVars>>

\* lines 312-315
NotFound ==
    /\ pc = "single"
    /\ idx = 0
    /\ output' = output \o << [kind |-> "error_not_found", name |-> project_name],
                              [kind |-> "available", keys |-> ProjectKeys(projects)] >>
    /\ pc' = "exit1"
    /\ UNCHANGED <<projects, storage_info, project_name, details, idx, divisors, callVars>>

\* lines 316-318
ListAll ==
    /\ pc = "start"
    /\ ~Truthy(project_name)
    /\ output' = output \o << [kind |-> "project_list"] >>
    /\ pc' = "all"
    /\ UNCHANGED <<projects, storage_info, project_name, details, idx, divisors, callVars>>

\* mutant of ReportNext: the list walked from its end
ReportNext_reversed ==
    /\ pc = "all"
    /\ idx < Len(projects)
    /\ LET r == print_project_usage(projects[Len(projects) - idx], storage_info, details)
       IN  /\ output' = output \o r.lines
           /\ divisors' = divisors \cup r.divisors
           /\ pc' = IF r.raised THEN "KeyError" ELSE "all"
    /\ idx' = idx + 1
    /\ UNCHANGED <<projects, storage_info, project_name, details, callVars>>

\* lines 320-321, one iteration
ReportNext ==
    /\ pc = "all"
    /\ idx < Len(projects)
    /\ LET r == print_project_usage(projects[idx + 1], storage_info, details)
       IN  /\ output' = output \o r.lines
           /\ divisors' = divisors \cup r.divisors
           /\ pc' = IF r.raised THEN "KeyError" ELSE "all"
    /\ idx' = idx + 1
    /\ UNCHANGED <<projects, storage_info, project_name, details, callVars>>

\* lines 323-334, after the loop
Summary ==
    /\ pc = "all"
    /\ idx = Len(projects)
    /\ output' = output \o summary_lines(projects)
    /\ pc' = "done"
    /\ UNCHANGED <<projects, storage_info, project_name, details, idx, divisors, callVars>>

-----------------------------------------------------------------------------
(* The inputs explored *)

Str_p1 == <<112, 49>>

Str_p2 == <<112, 50>>

Str_p3 == <<112, 51>>

Str_r1 == <<114, 49>>

Str_r2 == <<114, 50>>

Str_r3 == <<114, 51>>

Str_B == <<66>>

Str_zz == <<122, 122>>

Str_LOCAL == <<76, 79, 67, 65, 76>>

\* the display name of the first project is the key of the second
ProjectPool ==
    { [project_key |-> Str_p1, display_name |-> Str_p2, storage_quota_bytes |-> 1000],
      [project_key |-> Str_p2, display_name |-> Str_B,  storage_quota_bytes |-> 0],
      [project_key |-> Str_p3, display_name |-> Str_B,  storage_quota_bytes |-> -5] }

\* used bytes are multiples of 10; the last record has no repository key
RecordPool ==
    { [projectKey |-> Str_p1, repoKey |-> Str_r1, repoType |-> Str_LOCAL, usedSpaceInBytes |-> 900],
      [projectKey |-> Str_p1, repoKey |-> TOTAL, usedSpaceInBytes |-> 900],
      [projectKey |-> Str_p1, repoKey |-> Str_r2, usedSpaceInBytes |-> 800],
      [projectKey |-> Str_p2, repoKey |-> Str_r3, repoType |-> Str_LOCAL],
      [projectKey |-> Str_p3, usedSpaceInBytes |-> 10] }

SelectorPool == {None, <<>>, Str_p2, Str_zz}

SeqsUpTo(S, n) == UNION { [1..k -> S] : k \in 0..n }

IdleCall == fn = "none" /\ arg = <<>> /\ ret = NoResult

Init ==
    /\ pc = "start"
    /\ projects \in SeqsUpTo(ProjectPool, MaxProjects)
    /\ storage_info \in SeqsUpTo(RecordPool, MaxRecords)
    /\ project_name \in SelectorPool
    /\ details \in BOOLEAN
    /\ idx = 0
    /\ output = <<>>
    /\ divisors = {}
    /\ IdleCall

Next ==
    \/ FindProject
    \/ ReportTarget
    \/ NotFound
    \/ ListAll
    \/ ReportNext
    \/ Summary

Spec == Init /\ [][Next]_vars

-----------------------------------------------------------------------------
(* Direct calls of the pure methods *)

IdleMain ==
    /\ pc = "idle"
    /\ projects = <<>>
    /\ storage_info = <<>>
    /\ project_name = None
    /\ details = FALSE
    /\ idx = 0
    /\ output = <<>>
    /\ divisors = {}

DigitSamples == {0, 1, 128, 1023}

InitFormat ==
    /\ IdleMain
    /\ fn = "format_size"
    /\ arg \in [bytes_size : [1..MaxDigits -> DigitSamples]]
    /\ ret = NoResult

Call_format_size ==
    /\ fn = "format_size"
    /\ ret = NoResult
    /\ ret' = [returned |-> TRUE, value |-> format_size(arg.bytes_size)]
    /\ UNCHANGED <<mainVars, fn, arg>>

SpecFormat == InitFormat /\ [][Call_format_size]_vars

\* code points on both sides of the two ends of U+4E00..U+9FFF, and an ASCII letter
CharSamples == {97, CJKFirst - 1, CJKFirst, CJKLast, CJKLast + 1}

InitPad ==
    /\ IdleMain
    /\ fn = "pad_string"
    /\ arg \in [text  : SeqsUpTo(CharSamples, MaxLen),
                width : -1..MaxWidth,
                align : {AlignLeft, AlignRight, AlignCenter}]
    /\ ret = NoResult

Call_pad_string ==
    /\ fn = "pad_string"
    /\ ret = NoResult
    /\ ret' = [returned |-> TRUE, value |-> pad_string(arg.text, arg.width, arg.align)]
    /\ UNCHANGED <<mainVars, fn, arg>>

SpecPad == InitPad /\ [][Call_pad_string]_vars

\* records with and without each of the three fields calculate_project_usage reads
UsagePool ==
    { [projectKey |-> Str_p1, repoKey |-> Str_r1, usedSpaceInBytes |-> 900],
      [projectKey |-> Str_p1, repoKey |-> TOTAL, usedSpaceInBytes |-> 900],
      [projectKey |-> Str_p1, repoKey |-> Str_r2],
      [projectKey |-> Str_p1, usedSpaceInBytes |-> 10],
      [repoKey |-> Str_r3, usedSpaceInBytes |-> 50],
      [projectKey |-> Str_p2, repoKey |-> Str_r3, usedSpaceInBytes |-> 70] }

InitUsage ==
    /\ IdleMain
    /\ fn = "calculate_project_usage"
    /\ arg \in [project_key  : {Str_p1, Str_p2, Str_p3},
                storage_info : SeqsUpTo(UsagePool, MaxRepos)]
    /\ ret = NoResult

Call_calculate_project_usage ==
    /\ fn = "calculate_project_usage"
    /\ ret = NoResult
    /\ ret' = [returned |-> TRUE,
               value    |-> calculate_project_usage(arg.project_key, arg.storage_info)]
    /\ UNCHANGED <<mainVars, fn, arg>>

SpecUsage == InitUsage /\ [][Call_calculate_project_usage]_vars

-----------------------------------------------------------------------------
(* Properties of the pure methods *)

Returned(name) == fn = name /\ ret.returned

\* the indices of the records the claim assigns to project k
MatchingIdx(info, k) ==
    { i \in DOMAIN info :
        /\ "projectKey" \in DOMAIN info[i]
        /\ info[i].projectKey = k
        /\ ~("repoKey" \in DOMAIN info[i] /\ info[i].repoKey = TOTAL) }

UsedOrZero(r) == IF "usedSpaceInBytes" \in DOMAIN r THEN r.usedSpaceInBytes ELSE 0

RECURSIVE SumOver(_, _)
SumOver(info, I) ==
    IF I = {} THEN 0
    ELSE LET i == CHOOSE j \in I : TRUE
         IN  UsedOrZero(info[i]) + SumOver(info, I \ {i})

\* sub is the records of info at the indices I, in the order of info
IsSubsequenceAt(sub, info, I) ==
    /\ Len(sub) = Cardinality(I)
    /\ \A n \in DOMAIN sub :
          \E i \in I : Cardinality({j \in I : j <= i}) = n /\ sub[n] = info[i]

\* C1: calculate_project_usage(k, records) returns, for every key and every list of
\* records (empty; records lacking projectKey, repoKey or usedSpaceInBytes), the
\* records with projectKey = k and repoKey # "TOTAL" in list order, the sum of their
\* used bytes with a missing value counted as 0, and their number; with no matching
\* record the total and the count are 0.
C1_UsageSummary ==
    Returned("calculate_project_usage") =>
        LET I == MatchingIdx(arg.storage_info, arg.project_key)
            u == ret.value
        IN  /\ IsSubsequenceAt(u.repositories, arg.storage_info, I)
            /\ u.total_used_bytes = SumOver(arg.storage_info, I)
            /\ u.repo_count = Cardinality(I)
            /\ (I = {} => u.total_used_bytes = 0 /\ u.repo_count = 0)

\* a TOTAL row of project k, a record of k without used bytes and one without a
\* repository key were all summarised
C1_Witness ==
    /\ Returned("calculate_project_usage")
    /\ \E i \in DOMAIN arg.storage_info :
          /\ Get(arg.storage_info[i], "projectKey", None) = arg.project_key
          /\ Get(arg.storage_info[i], "repoKey", None) = TOTAL
    /\ \E i \in DOMAIN arg.storage_info :
          /\ Get(arg.storage_info[i], "projectKey", None) = arg.project_key
          /\ "repoKey" \notin DOMAIN arg.storage_info[i]
    /\ \E i \in DOMAIN arg.storage_info :
          /\ Get(arg.storage_info[i], "projectKey", None) = arg.project_key
          /\ "usedSpaceInBytes" \notin DOMAIN arg.storage_info[i]
    /\ ret.value.repo_count = 2

\* the display width as the claim defines it
ClaimWidth(text) ==
    Len(text) + Cardinality({ i \in DOMAIN text : text[i] >= 19968 /\ text[i] <= 40959 })

Spaces(n) == [i \in 1..n |-> 32]

\* C9: for every text, width and alignment (left, right, center) the display width of
\* pad_string(text, width, align) is max(width, displayWidth(text)); a text at least
\* as wide as the target is returned unchanged; left appends the padding, right
\* prepends it, center puts floor(padding / 2) spaces left and the rest right.
C9_PadWidth ==
    Returned("pad_string") =>
        LET w       == ClaimWidth(arg.text)
            padding == arg.width - w
        IN  /\ ClaimWidth(ret.value) = Max(arg.width, w)
            /\ w >= arg.width => ret.value = arg.text
            /\ w < arg.width /\ arg.align = AlignLeft =>
                  ret.value = arg.text \o Spaces(padding)
            /\ w < arg.width /\ arg.align = AlignRight =>
                  ret.value = Spaces(padding) \o arg.text
            /\ w < arg.width /\ arg.align = AlignCenter =>
                  ret.value = Spaces(padding \div 2) \o arg.text
                                  \o Spaces(padding - (padding \div 2))

\* a text holding U+9FFF and a narrow character was centred with an odd padding
C9_Witness ==
    /\ Returned("pad_string")
    /\ arg.align = AlignCenter
    /\ arg.text = <<40959, 97>>
    /\ arg.width = 6
    /\ ret.value = <<32, 40959, 97, 32, 32>>

\* bytes_size >= 1024^k
AtLeastPow(d, k) == \E i \in DOMAIN d : i > k /\ d[i] # 0

\* bytes_size = n
ValueIs(d, n) ==
    LET e == ToDigits(n)
    IN  \A i \in DOMAIN d : d[i] = (IF i <= Len(e) THEN e[i] ELSE 0)

\* the text after the first space
UnitOf(text) ==
    LET sp == CHOOSE i \in DOMAIN text : text[i] = 32 /\ \A j \in 1..(i - 1) : text[j] # 32
    IN  SubSeq(text, sp + 1, Len(text))

\* C10: format_size(0) is exactly "0 B"; a non-zero b below 1024 is in B, b in
\* [1024^k, 1024^(k+1)) is in the k-th unit of KB, MB, GB, TB for k = 1..4, every
\* b >= 1024^5 is in PB with no further division (1024^6 is "1024.00 PB");
\* 1023 is "1023.00 B", 1024 is "1.00 KB" and 1024 * 1024 is "1.00 MB".
C10_UnitSelection ==
    Returned("format_size") =>
        LET d    == arg.bytes_size
            text == ret.value
        IN  /\ ~AtLeastPow(d, 0) => text = <<48, 32, 66>>
            /\ AtLeastPow(d, 0) /\ ~AtLeastPow(d, 1) => UnitOf(text) = <<66>>
            /\ \A k \in 1..4 :
                  AtLeastPow(d, k) /\ ~AtLeastPow(d, k + 1) => UnitOf(text) = Units[k + 1]
            /\ AtLeastPow(d, 5) => UnitOf(text) = <<80, 66>>
            /\ ValueIs(d, 1023) => text = <<49, 48, 50, 51, 46, 48, 48, 32, 66>>
            /\ ValueIs(d, 1024) => text = <<49, 46, 48, 48, 32, 75, 66>>
            /\ ValueIs(d, 1024 * 1024) => text = <<49, 46, 48, 48, 32, 77, 66>>
            /\ (d[7] = 1 /\ \A i \in DOMAIN d : i # 7 => d[i] = 0) =>
                  text = <<49, 48, 50, 52, 46, 48, 48, 32, 80, 66>>

\* 1024^6 bytes were formatted as "1024.00 PB"
C10_Witness ==
    /\ Returned("format_size")
    /\ AtLeastPow(arg.bytes_size, 6)
    /\ ret.value = <<49, 48, 50, 52, 46, 48, 48, 32, 80, 66>>

-----------------------------------------------------------------------------
(* Properties of the report: a block is the lines of one print_project_usage call,
   from its name line to the line before the next separator *)

KindIdx(k) == { i \in DOMAIN output : output[i].kind = k }

NameIdx == KindIdx("name")

BlockEnd(i) ==
    IF \E j \in KindIdx("separator") : j > i
    THEN (CHOOSE j \in KindIdx("separator") :
             j > i /\ \A m \in KindIdx("separator") : m > i => j <= m) - 1
    ELSE Len(output)

InBlock(i, k) == { j \in i..BlockEnd(i) : output[j].kind = k }

SingleMode == project_name # None /\ project_name # <<>>

\* the first project, in list order, whose key or display name is the selector; 0 for none
FirstMatch ==
    LET hit(i) == projects[i].project_key = project_name
                     \/ projects[i].display_name = project_name
    IN  IF \E i \in DOMAIN projects : hit(i)
        THEN CHOOSE i \in DOMAIN projects : hit(i) /\ \A j \in 1..(i - 1) : ~hit(j)
        ELSE 0

\* the project the block with name line i reports
ProjectOfBlock(i) ==
    IF SingleMode THEN projects[FirstMatch]
    ELSE projects[Cardinality({ j \in NameIdx : j <= i })]

QuotaOf(i) == ProjectOfBlock(i).storage_quota_bytes

UsedOf(i) ==
    SumOver(storage_info, MatchingIdx(storage_info, ProjectOfBlock(i).project_key))

\* C2: for a project with quota > 0 the colour of the name and the warning line fall
\* in the same tier, by strict comparisons on used / quota * 100: > 90 danger colour
\* and critical line, > 80 and <= 90 warning colour and attention line, <= 80 normal
\* colour and no warning line (exactly 80 is normal, exactly 90 is warning).
C2_TierAgreement ==
    \A i \in NameIdx :
        LET q      == QuotaOf(i)
            u      == UsedOf(i)
            levels == { output[j].level : j \in InBlock(i, "warning") }
            after  == IF i + 6 <= BlockEnd(i) /\ output[i + 6].kind = "warning"
                      THEN {i + 6} ELSE {}
        IN  q > 0 =>
              /\ InBlock(i, "warning") = after
              /\ u * 100 > 90 * q =>
                    output[i].color_code = RED /\ levels = {"critical"}
              /\ u * 100 > 80 * q /\ u * 100 <= 90 * q =>
                    output[i].color_code = YELLOW /\ levels = {"attention"}
              /\ u * 100 <= 80 * q =>
                    output[i].color_code = GREEN /\ levels = {}

\* used 900 of quota 1000 was reported in the warning tier
C2_Witness ==
    \E i \in NameIdx :
        /\ QuotaOf(i) = 1000
        /\ UsedOf(i) = 900
        /\ output[i].color_code = YELLOW
        /\ output[i + 6] = [kind |-> "warning", level |-> "attention"]

\* C3: for a project with quota <= 0 nothing is divided by the quota, the quota and
\* the usage percentage are shown as the 'unlimited' literal, no usage bar and no
\* warning line is printed, and every row of the detail table shows 'N/A' as share.
C3_UnlimitedQuota ==
    /\ \A d \in divisors : d > 0
    /\ \A i \in NameIdx :
          QuotaOf(i) <= 0 =>
            /\ output[i + 1] = [kind |-> "quota", text |-> <<26080, 38480, 21046>>]
            /\ output[i + 4] = [kind |-> "percent", text |-> <<26080, 38480, 21046>>]
            /\ InBlock(i, "percent") = {i + 4}
            /\ InBlock(i, "bar") = {}
            /\ InBlock(i, "warning") = {}
            /\ \A j \in InBlock(i, "row") :
                  output[j].repo_percent = <<78, 47, 65>> \o Spaces(9)

\* a project of quota 0 was reported with a row in its detail table
C3_Witness ==
    \E i \in NameIdx :
        /\ QuotaOf(i) = 0
        /\ InBlock(i, "row") # {}

\* C4: for a project with quota > 0 and every total of used bytes (totals above the
\* quota included) the usage bar is exactly 30 cells: floor(30 * used / quota) filled
\* glyphs, then empty glyphs; used 900 of quota 1000 gives 27 filled and 3 empty.
C4_BarThirtyCells ==
    \A i \in NameIdx :
        QuotaOf(i) > 0 =>
            /\ output[i + 5].kind = "bar"
            /\ output[i + 5].bar =
                  [k \in 1..30 |->
                      IF k <= (30 * UsedOf(i)) \div QuotaOf(i) THEN 9608 ELSE 9617]

\* C5: the detail table is rendered if and only if the caller's details flag is true
\* and the project has at least one matching repository, when all projects are
\* listed and when one project is selected alike.
C5_TableIffFlag ==
    \A i \in NameIdx :
        InBlock(i, "table_header") # {}
            <=> (details /\ MatchingIdx(storage_info, ProjectOfBlock(i).project_key) # {})

RECURSIVE BlocksUpTo(_)
BlocksUpTo(n) ==
    IF n = 0 THEN <<>>
    ELSE BlocksUpTo(n - 1) \o print_project_usage(projects[n], storage_info, details).lines

SummaryKinds ==
    {"summary_title", "total_projects", "limited_projects", "unlimited_projects", "total_quota"}

\* the n-th name line
NthName(n) ==
    CHOOSE i \in NameIdx : Cardinality({ j \in NameIdx : j <= i }) = n

\* C7: without a selector main emits one report block per project, in list order,
\* each computed from the same storage snapshot, and the aggregate summary only after
\* the last block; with a selector no summary is emitted.
C7_AllProjectsOrder ==
    /\ SingleMode => \A k \in SummaryKinds : KindIdx(k) = {}
    /\ ~SingleMode =>
          /\ pc \in {"start", "all", "done", "KeyError"}
          /\ pc = "start" => output = <<>>
          /\ pc # "start" =>
                output = << [kind |-> "project_list"] >> \o BlocksUpTo(idx)
                            \o (IF pc = "done" THEN summary_lines(projects) ELSE <<>>)
          /\ Cardinality(NameIdx) = idx
          /\ \A n \in 1..idx : output[NthName(n)].project_key = projects[n].project_key
          /\ pc = "done" => idx = Len(projects)
          /\ KindIdx("summary_title") # {} =>
                /\ pc = "done"
                /\ \A i \in NameIdx : \A j \in KindIdx("summary_title") : i < j

\* two different projects were listed in order and the summary followed
C7_Witness ==
    /\ ~SingleMode
    /\ pc = "done"
    /\ Len(projects) = 2
    /\ projects[1].project_key # projects[2].project_key
    /\ Cardinality(NameIdx) = 2
    /\ KindIdx("summary_title") # {}

LimitedIdx == { i \in DOMAIN projects : projects[i].storage_quota_bytes > 0 }

RECURSIVE SumQuotaOver(_)
SumQuotaOver(I) ==
    IF I = {} THEN 0
    ELSE LET i == CHOOSE j \in I : TRUE
         IN  projects[i].storage_quota_bytes + SumQuotaOver(I \ {i})

ValueAt(k) == { output[i].value : i \in KindIdx(k) }

\* C8: the summary reports the number of projects, the number with quota > 0 as
\* limited and the number with quota <= 0 as unlimited (limited + unlimited = total),
\* and prints the total-quota line, the formatted sum of the limited quotas only, if
\* and only if a limited-quota project exists.
C8_Summary ==
    (pc = "done" /\ ~SingleMode) =>
        LET limited   == Cardinality(LimitedIdx)
            unlimited == Cardinality({ i \in DOMAIN projects :
                                         projects[i].storage_quota_bytes <= 0 })
        IN  /\ ValueAt("total_projects") = {Len(projects)}
            /\ ValueAt("limited_projects") = {limited}
            /\ ValueAt("unlimited_projects") = {unlimited}
            /\ limited + unlimited = Len(projects)
            /\ KindIdx("total_quota") # {} <=> limited >= 1
            /\ \A i \in KindIdx("total_quota") :
                  /\ i = Len(output)
                  /\ output[i].text = format_size(ToDigits(SumQuotaOver(LimitedIdx)))

\* a limited and a negative-quota project were summarised: total quota "1000.00 B"
C8_Witness ==
    /\ pc = "done"
    /\ ~SingleMode
    /\ \E i \in DOMAIN projects : projects[i].storage_quota_bytes < 0
    /\ Cardinality(LimitedIdx) = 1
    /\ \E i \in KindIdx("total_quota") :
          output[i].text = <<49, 48, 48, 48, 46, 48, 48, 32, 66>>

=============================================================================
